---- MODULE Spec2Model ----
(***************************************************************************)
(* State-machine model of the law scraping backend (Server_leis).         *)
(*                                                                         *)
(* The program is one Node.js process: a refresh scheduler                 *)
(* (scheduleLawUpdates, started at load and by a 24 h setInterval) that    *)
(* fetches each catalog entry through axios + axios-retry, cleans it with  *)
(* parseHTML and upserts it into the SQLite table `laws`, and one read     *)
(* endpoint GET /laws/:lawType.  JavaScript runs every callback to its     *)
(* next await, so one action of the model is one such run.                 *)
(***************************************************************************)
EXTENDS Integers, Sequences, FiniteSets, Bags, TLC

(***************************************************************************)
(* Bounds of the model.                                                    *)
(***************************************************************************)
\* how many entries of the catalog lawsToUpdate the model keeps
CatalogLen == 2
\* how many runs of scheduleLawUpdates are started (the one at load included)
MaxCycles == 2
\* the last second the CURRENT_TIMESTAMP clock reaches
MaxTime == 1
\* the longest markup, in pieces, handed to parseHTML on its own
MaxLen == 3

(***************************************************************************)
(* Program constants.                                                      *)
(***************************************************************************)
\* axiosRetry(axios, { retries: 3, ... })
retries == 3
\* retryDelay: retryCount * 2000
retryDelayUnit == 2000
\* await delay(2000) between two catalog entries
pauseMs == 2000

(***************************************************************************)
(* The catalog: const lawsToUpdate = [ {type, url}, ... ] (11 entries; the *)
(* model keeps the first CatalogLen of them, in order).                    *)
(***************************************************************************)
AllLaws ==
  << [type |-> "codigo-civil",         url |-> "L10406compilada.htm"],
     [type |-> "processo-civil",       url |-> "del1608.htm"],
     [type |-> "eleitoral",            url |-> "L4737compilado.htm"],
     [type |-> "codigo-comercial",     url |-> "LIM556compilado.htm"],
     [type |-> "codigo-penal",         url |-> "del2848compilado.htm"],
     [type |-> "constituicao-federal", url |-> "ConstituicaoCompilado.htm"],
     [type |-> "codigo-tributario",    url |-> "L5172Compilado.htm"],
     [type |-> "leis-trabalho",        url |-> "Del5452compilado.htm"],
     [type |-> "defesa-consumidor",    url |-> "l8078compilado.htm"],
     [type |-> "advocacia",            url |-> "l8906.htm"],
     [type |-> "estatuto-deficiencia", url |-> "l13146.htm"] >>

lawsToUpdate == SubSeq(AllLaws, 1, CatalogLen)

CatalogTypes == {lawsToUpdate[i].type : i \in 1..Len(lawsToUpdate)}

\* :lawType of a request is any string: the catalog's types and one that is
\* in no catalog
RequestTypes == CatalogTypes \cup {"lei-desconhecida"}

(***************************************************************************)
(* Payloads.  A response body is a sequence of pieces of markup; each      *)
(* piece stands for one element, one run of text or one byte of the        *)
(* legacy encoding.                                                        *)
(***************************************************************************)
\* what the upstream host may answer with (raw bytes, windows-1252)
Payloads ==
  { << >>,
    << "<img>", "<script>", "<a href>", "0xE7", "<style>", "<link>", "&ccedil;" >> }

\* iconv.decode(data, 'windows-1252'): bytes above 0x7F become the
\* characters of the code page, ASCII is unchanged
iconvDecode(data) ==
  [i \in DOMAIN data |->
     IF data[i] = "0xE7" THEN "c-cedilha"
     ELSE IF data[i] = "0x80" THEN "euro"
     ELSE data[i]]

RECURSIVE SelectSeq2(_, _)
\* a sequence without the pieces in `drop`
SelectSeq2(s, drop) ==
  IF s = << >> THEN << >>
  ELSE IF Head(s) \in drop THEN SelectSeq2(Tail(s), drop)
  ELSE << Head(s) >> \o SelectSeq2(Tail(s), drop)

\* $('img, script, style, link').remove()
removeElements(doc) == SelectSeq2(doc, {"<img>", "<script>", "<style>", "<link>"})

\* $('a').removeAttr('href')
removeHref(doc) ==
  [i \in DOMAIN doc |-> IF doc[i] = "<a href>" THEN "<a>" ELSE doc[i]]

\* he.decode(...): every character entity becomes its literal character
heDecode(doc) ==
  [i \in DOMAIN doc |->
     IF doc[i] = "&ccedil;" THEN "c-cedilha"
     ELSE IF doc[i] = "&amp;" THEN "&"
     ELSE IF doc[i] = "&lt;script&gt;" THEN "<script>"
     ELSE doc[i]]

\* function parseHTML(html): cheerio.load parses the text as a whole
\* document, so $.html() always carries the <html> shell, even for an empty
\* input
parseHTML(html) ==
  heDecode(<< "<html>" >> \o removeHref(removeElements(html)))

(***************************************************************************)
(* Values of the local `content` of updateLaw: a string or null.           *)
(***************************************************************************)
Null == [isNull |-> TRUE, text |-> << >>]
Str(s) == [isNull |-> FALSE, text |-> s]

\* JavaScript truthiness of a string-or-null: null and "" are falsy
Truthy(v) == ~v.isNull /\ v.text # << >>

(***************************************************************************)
(* The fetcher: axios.get wrapped by axios-retry.                          *)
(***************************************************************************)
\* how one HTTP attempt can fail
\*   ECONNRESET   connection reset by the peer
\*   ENOTFOUND    DNS failure
\*   ETIMEDOUT    the operating system's connect timeout
\*   ECONNABORTED axios's own `timeout: 20000` expired
\*   HTTP5xx      a response with status 500..599
\*   HTTP4xx      a response with status 400..499
ErrorKinds ==
  {"ECONNRESET", "ENOTFOUND", "ETIMEDOUT", "ECONNABORTED", "HTTP5xx", "HTTP4xx"}

\* axiosRetry.isNetworkError: no response, an error code, and the code is
\* not ECONNABORTED (a timed out request is not retried)
isNetworkError(error) ==
  error \in {"ECONNRESET", "ENOTFOUND", "ETIMEDOUT"}

\* axiosRetry.isIdempotentRequestError for a GET: not ECONNABORTED and
\* (no response or a 5xx response)
isIdempotentRequestError(error) ==
  error # "ECONNABORTED" /\ error # "HTTP4xx"

\* retryCondition: (error) =>
\*   axiosRetry.isNetworkOrIdempotentRequestError(error) || error.code === 'ECONNRESET'
retryCondition(error) ==
  \/ isNetworkError(error) \/ isIdempotentRequestError(error)
  \/ error = "ECONNRESET"

\* axios-retry's shouldRetry: retries left and the condition holds
shouldRetry(retryCount, error) ==
  retryCount < retries /\ retryCondition(error)

\* axiosRetry.exponentialDelay in place of the linear delay: 2 s, 4 s, 8 s
retryDelayExponential(retryCount) == (2 ^ retryCount) * (retryDelayUnit \div 2)

\* retryDelay: (retryCount) => retryCount * 2000
retryDelay(retryCount) == retryCount * retryDelayUnit

\* the decode step left out: the bytes are parsed as they came
fetchResultNoDecode(data) == Str(parseHTML(data))

\* fetchAndParseData's try branch: iconv.decode then parseHTML
fetchResult(data) == Str(parseHTML(iconvDecode(data)))

\* what fetchAndParseData returns for each answer the server can give
fetchAndParseData == [data \in Payloads |-> fetchResult(data)]

\* the Latin-1 reading of each answer, cleaned by parseHTML
Cleaned == [data \in Payloads |-> parseHTML(iconvDecode(data))]

(***************************************************************************)
(* The store: table laws(id AUTOINCREMENT, law_type UNIQUE, content,       *)
(* last_updated), kept as the sequence of its rows in rowid order.         *)
(***************************************************************************)
RowsOf(table, lawType) == {i \in DOMAIN table : table[i].law_type = lawType}

\* the rowid an AUTOINCREMENT column gives the next inserted row
NextId(table) ==
  IF table = << >> THEN 1
  ELSE 1 + (CHOOSE m \in {table[i].id : i \in DOMAIN table} :
              \A i \in DOMAIN table : table[i].id <= m)

NewRow(table, lawType, content, ts) ==
  [id |-> NextId(table), law_type |-> lawType, content |-> content,
   last_updated |-> ts]

\* a plain INSERT INTO laws (law_type, content) VALUES (?, ?) on a table
\* without the UNIQUE constraint
UpsertPlainInsert(table, lawType, content, ts) ==
  Append(table, NewRow(table, lawType, content, ts))

\* ON CONFLICT(law_type) DO NOTHING: the existing row wins
UpsertDoNothing(table, lawType, content, ts) ==
  IF RowsOf(table, lawType) # {} THEN table
  ELSE Append(table, NewRow(table, lawType, content, ts))

\* an upsert whose UPDATE has no key: on a conflict every row is overwritten
UpsertAllRows(table, lawType, content, ts) ==
  IF RowsOf(table, lawType) # {}
  THEN [i \in DOMAIN table |->
          [table[i] EXCEPT !.content = content, !.last_updated = ts]]
  ELSE Append(table, NewRow(table, lawType, content, ts))

\* INSERT INTO laws (law_type, content, last_updated) VALUES (?, ?, CURRENT_TIMESTAMP)
\* ON CONFLICT(law_type) DO UPDATE SET content = excluded.content,
\*                                     last_updated = CURRENT_TIMESTAMP
Upsert(table, lawType, content, ts) ==
  IF RowsOf(table, lawType) # {}
  THEN [i \in DOMAIN table |->
          IF table[i].law_type = lawType
          THEN [table[i] EXCEPT !.content = content, !.last_updated = ts]
          ELSE table[i]]
  ELSE Append(table, NewRow(table, lawType, content, ts))

\* the same query without its WHERE law_type = ? clause
SelectLatestAnyType(table, lawType) ==
  {i \in DOMAIN table :
     \A j \in DOMAIN table : table[j].last_updated <= table[i].last_updated}

\* SELECT content FROM laws WHERE law_type = ? ORDER BY last_updated DESC LIMIT 1
\* the rows the query may return: SQL leaves the order of rows with equal
\* last_updated open, so every row with the greatest timestamp is a candidate
SelectLatest(table, lawType) ==
  {i \in RowsOf(table, lawType) :
     \A j \in RowsOf(table, lawType) : table[j].last_updated <= table[i].last_updated}

\* the content of lawType's record, << >> when there is none
ContentOf(table, lawType) ==
  IF RowsOf(table, lawType) = {} THEN << >>
  ELSE table[CHOOSE i \in RowsOf(table, lawType) : TRUE].content

\* updateLaw without its if (content): whatever came back is written
updateLawStoreNoGuard(table, lawType, content, ts) ==
  Upsert(table, lawType, content.text, ts)

\* updateLaw that drops the record of a type whose fetch failed
updateLawStoreDeleteOnFailure(table, lawType, content, ts) ==
  IF Truthy(content) THEN Upsert(table, lawType, content.text, ts)
  ELSE SelectSeq(table, LAMBDA row : row.law_type # lawType)

\* a write in two statements of which a reader can see the first alone: the
\* record with only the head of its content
updateLawStorePartial(table, lawType, content, ts) ==
  IF Truthy(content)
  THEN Upsert(table, lawType, SubSeq(content.text, 1, 1), ts)
  ELSE table

\* updateLaw after the await: if (content) { upsert } else { log the failure }
updateLawStore(table, lawType, content, ts) ==
  IF Truthy(content) THEN Upsert(table, lawType, content.text, ts) ELSE table

(***************************************************************************)
(* The read endpoint, as a function of the table.                          *)
(***************************************************************************)
HttpResponse(status, body, error) ==
  [status |-> status, body |-> body, error |-> error]

\* res.status(404).json({ error: 'Lei não encontrada' })
NotFound == HttpResponse(404, << >>, "Lei não encontrada")

\* app.get('/laws/:lawType', ...): the answers the handler may give
GetLawResponses(table, lawType) ==
  IF SelectLatest(table, lawType) # {}
  THEN {HttpResponse(200, table[i].content, "") : i \in SelectLatest(table, lawType)}
  ELSE {NotFound}

(***************************************************************************)
(* State.                                                                  *)
(***************************************************************************)
VARIABLES
  laws,          \* the rows of table laws
  now,           \* CURRENT_TIMESTAMP when it was last read, in seconds
  cycles,        \* the started runs of scheduleLawUpdates, as a bag
  log,           \* the line updateLaw logged in the last step, if any
  lastUpserted   \* per document type, the content of its latest upsert

vars == << laws, now, cycles, log, lastUpserted >>

\* a run of scheduleLawUpdates suspended at an await (or returned):
\*   pc         "fetch"   axios.get in flight
\*              "backoff" axios-retry sleeping before the next attempt
\*              "pause"   await delay(2000)
\*              "done"    the function has returned
\*   idx        position of `law` in lawsToUpdate
\*   retryCount axios-retry's counter of the request in flight
\*   attempts   HTTP requests sent so far by the current fetchAndParseData
\*   timer      milliseconds of the sleep the run is suspended in
Run(pc, idx, retryCount, attempts, timer) ==
  [pc |-> pc, idx |-> idx, retryCount |-> retryCount, attempts |-> attempts,
   timer |-> timer]

\* a run that has returned
Done == Run("done", Len(lawsToUpdate), 0, 0, 0)

\* scheduleLawUpdates up to the axios.get of entry i
StartFetch(i) == Run("fetch", i, 0, 1, 0)

\* axios-retry after a failed attempt that is retried: sleep retryDelay
Backoff(r) ==
  Run("backoff", r.idx, r.retryCount + 1, r.attempts, retryDelay(r.retryCount + 1))

\* axios-retry when the retry delay is over: the request is sent again
Resend(r) == Run("fetch", r.idx, r.retryCount, r.attempts + 1, 0)

\* a loop that ends when updateLaw comes back without content
AfterUpdateLawAbort(r, content) ==
  IF Truthy(content) THEN Run("pause", r.idx, 0, 0, pauseMs) ELSE Done

\* scheduleLawUpdates after `await updateLaw(law.type, law.url)`: the log
\* line and await delay(2000), whatever updateLaw did
AfterUpdateLaw(r, content) == Run("pause", r.idx, 0, 0, pauseMs)

\* scheduleLawUpdates after the pause: the next entry, or the end of the loop
AfterPause(r) ==
  IF r.idx < Len(lawsToUpdate) THEN StartFetch(r.idx + 1) ELSE Done

\* the runs in progress
RunningCycles == {r \in BagToSet(cycles) : r.pc # "done"}

\* how many runs are in progress
NumRunning == BagCardinality(cycles) - CopiesIn(Done, cycles)

Replace(bag, old, new) == (bag (-) SetToBag({old})) (+) SetToBag({new})

\* what updateLaw logs when it returns
\*   kind "updated"  console.log(`Lei ${lawType} atualizada no banco de dados.`)
\*        "failed"   console.log(`Falha ao obter conteudo para ${lawType} ...`)
\*        "none"     the step was no return of updateLaw
\* with, for an update, what the program does not print: the content
\* written and the content of the type's record before the write (<< >>
\* when there was none)
Line(kind, lawType, body, before) ==
  [kind |-> kind, lawType |-> lawType, body |-> body, before |-> before]

NoLine == Line("none", "", << >>, << >>)

\* the program as first started, on an empty database: the table is created
\* and scheduleLawUpdates() has run to its first await
Init ==
  /\ laws = << >>
  /\ now = 0
  /\ cycles = SetToBag({StartFetch(1)})
  /\ log = NoLine
  /\ lastUpserted = [t \in CatalogTypes |-> << >>]

(***************************************************************************)
(* Actions.                                                                *)
(***************************************************************************)
\* setInterval(scheduleLawUpdates, 24 h): the timer calls the function,
\* which runs to its first await (the axios.get of the first entry)
IntervalFires ==
  /\ BagCardinality(cycles) < MaxCycles
  /\ cycles' = cycles (+) SetToBag({StartFetch(1)})
  /\ log' = NoLine
  /\ UNCHANGED << laws, now, lastUpserted >>

\* the HTTP attempt of run r fails with `error` and axios-retry schedules
\* a retry
RequestRetried(r, error) ==
  /\ r.pc = "fetch"
  /\ shouldRetry(r.retryCount, error)
  /\ cycles' = Replace(cycles, r, Backoff(r))
  /\ log' = NoLine
  /\ UNCHANGED << laws, now, lastUpserted >>

\* the HTTP attempt of run r fails with `error` and axios-retry lets the
\* error through: fetchAndParseData's catch returns null, updateLaw logs the
\* failure and scheduleLawUpdates goes to its pause
RequestFails(r, error) ==
  LET lawType == lawsToUpdate[r.idx].type
  IN /\ r.pc = "fetch"
     /\ ~shouldRetry(r.retryCount, error)
     /\ laws' = updateLawStore(laws, lawType, Null, now)
     /\ cycles' = Replace(cycles, r, AfterUpdateLaw(r, Null))
     /\ log' = Line("failed", lawType, << >>, << >>)
     /\ UNCHANGED << now, lastUpserted >>

\* the retry delay of run r is over: axios-retry sends the request again
RetryTimerFires(r) ==
  /\ r.pc = "backoff"
  /\ cycles' = Replace(cycles, r, Resend(r))
  /\ log' = NoLine
  /\ UNCHANGED << laws, now, lastUpserted >>

\* the HTTP attempt of run r is answered with `data`, `elapsed` seconds
\* after the clock was last read: fetchAndParseData returns the cleaned
\* text, updateLaw upserts it at CURRENT_TIMESTAMP when it is truthy, and
\* scheduleLawUpdates goes to its pause
RequestSucceeds(r, data, elapsed) ==
  LET lawType == lawsToUpdate[r.idx].type
      content == fetchAndParseData[data]
  IN /\ r.pc = "fetch"
     /\ now + elapsed <= MaxTime
     /\ now' = now + elapsed
     /\ laws' = updateLawStore(laws, lawType, content, now + elapsed)
     /\ cycles' = Replace(cycles, r, AfterUpdateLaw(r, content))
     /\ log' = IF Truthy(content)
               THEN Line("updated", lawType, content.text, ContentOf(laws, lawType))
               ELSE Line("failed", lawType, << >>, << >>)
     /\ lastUpserted' = IF Truthy(content)
                        THEN [lastUpserted EXCEPT ![lawType] = content.text]
                        ELSE lastUpserted

\* the pause of run r is over: the loop takes the next entry and starts its
\* fetch, or the function returns after the last entry
PauseElapses(r) ==
  /\ r.pc = "pause"
  /\ cycles' = Replace(cycles, r, AfterPause(r))
  /\ log' = NoLine
  /\ UNCHANGED << laws, now, lastUpserted >>

\* a handler that stamps the row it serves
GetLawTouch(lawType) ==
  /\ laws' = [i \in DOMAIN laws |->
                IF laws[i].law_type = lawType
                THEN [laws[i] EXCEPT !.last_updated = now]
                ELSE laws[i]]
  /\ log' = NoLine
  /\ UNCHANGED << now, cycles, lastUpserted >>

\* a handler that waits until no run is suspended in a request or a retry
\* delay before it queries the table
GetLawBlocking(lawType) ==
  /\ \A r \in RunningCycles : r.pc \notin {"fetch", "backoff"}
  /\ log' = NoLine
  /\ UNCHANGED << laws, now, cycles, lastUpserted >>

\* app.get('/laws/:lawType', ...): the handler answers with one of
\* GetLawResponses(laws, lawType) and writes nothing
GetLaw(lawType) ==
  /\ log' = NoLine
  /\ UNCHANGED << laws, now, cycles, lastUpserted >>
  /\ GetLawResponses(laws, lawType) # {}

Next ==
  \/ IntervalFires
  \/ \E r \in RunningCycles : \E error \in ErrorKinds : RequestRetried(r, error)
  \/ \E r \in RunningCycles : \E error \in ErrorKinds : RequestFails(r, error)
  \/ \E r \in RunningCycles : RetryTimerFires(r)
  \/ \E r \in RunningCycles : \E data \in Payloads : \E elapsed \in {0, 1} :
       RequestSucceeds(r, data, elapsed)
  \/ \E r \in RunningCycles : PauseElapses(r)
  \/ \E lawType \in RequestTypes : GetLaw(lawType)

Spec == Init /\ [][Next]_vars

\* the event loop runs every callback that is ready, every timer fires and
\* every request ends, answered, failed or timed out after 20 s of silence
FairSpec == Spec /\ WF_vars(Next)

(***************************************************************************)
(* parseHTML on its own: the function is called with any markup of at most *)
(* MaxLen pieces and returns.  The call is kept in `cycles` as the one     *)
(* activation there is.                                                    *)
(***************************************************************************)
\* the pieces markup is made of: the four removed elements, a hyperlink with
\* its target, a run of text, and text that spells characters as entities
Pieces ==
  {"<img>", "<script>", "<style>", "<link>", "<a href>", "texto",
   "&amp;", "&ccedil;", "&lt;script&gt;"}

Markup == UNION {[1..n -> Pieces] : n \in 0..MaxLen}

\* parseHTML(html) entered
ParseCall(html) == [pc |-> "parseHTML", html |-> html, result |-> Null]

\* return he.decode($.html())
ParseReturn(c) == [pc |-> "returned", html |-> c.html, result |-> Str(parseHTML(c.html))]

InitParse ==
  /\ laws = << >>
  /\ now = 0
  /\ \E html \in Markup : cycles = SetToBag({ParseCall(html)})
  /\ log = NoLine
  /\ lastUpserted = [t \in CatalogTypes |-> << >>]

\* parseHTML runs to its return
ParseHTMLReturns ==
  \E c \in BagToSet(cycles) :
    /\ c.pc = "parseHTML"
    /\ cycles' = SetToBag({ParseReturn(c)})
    /\ UNCHANGED << laws, now, log, lastUpserted >>

NextParse == ParseHTMLReturns

SpecParse == InitParse /\ [][NextParse]_vars

(***************************************************************************)
(* The program with a store that can fail: better-sqlite3's run() throws   *)
(* a SqliteError (disk full, I/O error, database locked by another         *)
(* process).  updateLaw and scheduleLawUpdates have no try/catch and the   *)
(* promise of scheduleLawUpdates has no handler.                           *)
(***************************************************************************)
\* false once the runtime has ended the process
ProcessAlive == \A r \in BagToSet(cycles) : r.pc # "exited"

\* what the runtime does with the unhandled rejection: Node.js 15 and later
\* end the process, earlier versions print a warning and go on
RejectionOutcomes == {"exit", "warn"}

\* the run whose upsert threw: the exception leaves updateLaw and then
\* scheduleLawUpdates, whose loop is abandoned at entry r.idx
Aborted(r) == Run("aborted", r.idx, 0, 0, 0)

\* the process after the runtime has ended it
Exited == SetToBag({Run("exited", 1, 0, 0, 0)})

\* the HTTP attempt of run r is answered with `data`, and the upsert of the
\* cleaned text throws: nothing is written, the run is abandoned and the
\* rejection reaches the runtime
UpsertThrows(r, data, outcome) ==
  /\ ProcessAlive
  /\ r.pc = "fetch"
  /\ Truthy(fetchAndParseData[data])
  /\ cycles' = IF outcome = "exit" THEN Exited ELSE Replace(cycles, r, Aborted(r))
  /\ log' = Line("threw", lawsToUpdate[r.idx].type, << >>, << >>)
  /\ UNCHANGED << laws, now, lastUpserted >>

NextStoreFaults ==
  \/ ProcessAlive /\ Next
  \/ \E r \in RunningCycles : \E data \in Payloads : \E outcome \in RejectionOutcomes :
       UpsertThrows(r, data, outcome)

SpecStoreFaults == Init /\ [][NextStoreFaults]_vars

(***************************************************************************)
(* The earlier version of the server (scraping-backend/server.js, second   *)
(* program of the file): law_type is not unique, updateLaw is a plain      *)
(* INSERT, scheduleLawUpdates starts every updateLaw at once with forEach, *)
(* axios.get has neither timeout nor retry, and entities are decoded when  *)
(* a record is read.                                                       *)
(***************************************************************************)
\* data.toString('latin1')
legacyDecode(data) ==
  [i \in DOMAIN data |->
     IF data[i] = "0xE7" THEN "c-cedilha"
     ELSE IF data[i] = "0x80" THEN "U+0080"
     ELSE data[i]]

\* function parseHTML(html): $('img').remove(); $('a').removeAttr('href');
\* return $.html()
legacyParseHTML(html) ==
  << "<html>" >> \o removeHref(SelectSeq2(html, {"<img>"}))

\* fetchAndParseData's try branch
legacyFetchResult(data) == Str(legacyParseHTML(legacyDecode(data)))

legacyFetchAndParseData == [data \in Payloads |-> legacyFetchResult(data)]

\* INSERT INTO laws (law_type, content) VALUES (?, ?), last_updated taking
\* its default CURRENT_TIMESTAMP
legacyInsert(table, lawType, content, ts) ==
  Append(table, NewRow(table, lawType, content, ts))

\* updateLaw after the await: if (content) { insert }
legacyUpdateLawStore(table, lawType, content, ts) ==
  IF Truthy(content) THEN legacyInsert(table, lawType, content.text, ts) ELSE table

\* app.get('/laws/:lawType', ...): res.send(he.decode(row.content)) or 404
legacyGetLawResponses(table, lawType) ==
  IF SelectLatest(table, lawType) # {}
  THEN {HttpResponse(200, heDecode(table[i].content), "") : i \in SelectLatest(table, lawType)}
  ELSE {NotFound}

\* one call of updateLaw, started by call number `cycle` of
\* scheduleLawUpdates for entry idx
\*   pc "fetch"    axios.get outstanding
\*      "hung"     axios.get outstanding on a connection the upstream will
\*                 never answer
\*      "returned" updateLaw has returned
Task(cycle, idx, pc) == [cycle |-> cycle, idx |-> idx, pc |-> pc]

\* lawsToUpdate.forEach(law => { updateLaw(law.type, law.url); }): every
\* call runs to its axios.get
legacyScheduleLawUpdates(cycle) ==
  SetToBag({Task(cycle, i, "fetch") : i \in 1..Len(lawsToUpdate)})

\* how many calls of scheduleLawUpdates there have been
CyclesStarted == BagCardinality(cycles) \div Len(lawsToUpdate)

InitLegacy ==
  /\ laws = << >>
  /\ now = 0
  /\ cycles = legacyScheduleLawUpdates(1)
  /\ log = NoLine
  /\ lastUpserted = [t \in CatalogTypes |-> << >>]

\* setInterval(scheduleLawUpdates, 24 h)
LegacyIntervalFires ==
  /\ CyclesStarted < MaxCycles
  /\ cycles' = cycles (+) legacyScheduleLawUpdates(CyclesStarted + 1)
  /\ log' = NoLine
  /\ UNCHANGED << laws, now, lastUpserted >>

\* the request of task k is answered with `data`: the text is cleaned and
\* inserted, and updateLaw returns
LegacyRequestSucceeds(k, data, elapsed) ==
  LET lawType == lawsToUpdate[k.idx].type
      content == legacyFetchAndParseData[data]
  IN /\ k.pc = "fetch"
     /\ now + elapsed <= MaxTime
     /\ now' = now + elapsed
     /\ laws' = legacyUpdateLawStore(laws, lawType, content, now + elapsed)
     /\ cycles' = Replace(cycles, k, Task(k.cycle, k.idx, "returned"))
     /\ log' = IF Truthy(content)
               THEN Line("updated", lawType, content.text, ContentOf(laws, lawType))
               ELSE NoLine
     /\ lastUpserted' = IF Truthy(content)
                        THEN [lastUpserted EXCEPT ![lawType] = content.text]
                        ELSE lastUpserted

\* the request of task k fails: the catch returns null and updateLaw
\* returns without writing
LegacyRequestFails(k) ==
  /\ k.pc = "fetch"
  /\ laws' = legacyUpdateLawStore(laws, lawsToUpdate[k.idx].type, Null, now)
  /\ cycles' = Replace(cycles, k, Task(k.cycle, k.idx, "returned"))
  /\ log' = NoLine
  /\ UNCHANGED << now, lastUpserted >>

\* the upstream keeps the connection of task k open and never answers: with
\* no timeout in the request's options the promise of axios.get never settles
LegacyUpstreamSilent(k) ==
  /\ k.pc = "fetch"
  /\ cycles' = Replace(cycles, k, Task(k.cycle, k.idx, "hung"))
  /\ log' = NoLine
  /\ UNCHANGED << laws, now, lastUpserted >>

\* app.get('/laws/:lawType', ...)
LegacyGetLaw(lawType) ==
  /\ log' = NoLine
  /\ UNCHANGED << laws, now, cycles, lastUpserted >>
  /\ legacyGetLawResponses(laws, lawType) # {}

NextLegacy ==
  \/ LegacyIntervalFires
  \/ \E k \in BagToSet(cycles) : \E data \in Payloads : \E elapsed \in {0, 1} :
       LegacyRequestSucceeds(k, data, elapsed)
  \/ \E k \in BagToSet(cycles) : LegacyRequestFails(k)
  \/ \E k \in BagToSet(cycles) : LegacyUpstreamSilent(k)
  \/ \E lawType \in RequestTypes : LegacyGetLaw(lawType)

SpecLegacy == InitLegacy /\ [][NextLegacy]_vars

\* the event loop runs every callback that is ready: a step that can be
\* taken is taken
FairLegacy == SpecLegacy /\ WF_vars(NextLegacy)

(***************************************************************************)
(* Properties.                                                             *)
(***************************************************************************)
\* the document type of the entry run r is at
TypeOf(r) == lawsToUpdate[r.idx].type

\* a type no upsert has ever written
NeverUpserted(t) == t \notin CatalogTypes \/ lastUpserted[t] = << >>

\* C1: two refresh cycles are never in progress at the same time: an
\* interval trigger that fires while a run of scheduleLawUpdates is still
\* suspended starts no second run
C1_NoConcurrentCycles == NumRunning <= 1

\* C2: the table holds at most one row per document type, and right after
\* an upsert of type T with content C (also one that repeats the content
\* already stored) T has exactly one row, with content C
C2_OneRecordPerType ==
  /\ \A t \in RequestTypes : Cardinality(RowsOf(laws, t)) <= 1
  /\ log.kind = "updated" =>
       /\ Cardinality(RowsOf(laws, log.lawType)) = 1
       /\ ContentOf(laws, log.lawType) = log.body

\* an upsert of T has just written the content T's record already held
C2_Witness ==
  /\ log.kind = "updated"
  /\ log.before = log.body
  /\ Cardinality(RowsOf(laws, log.lawType)) = 1

\* C3: GET /laws/T answers with the content of the latest upsert of T,
\* whatever was upserted before it and in whatever second
C3_Freshness ==
  \A t \in CatalogTypes :
    lastUpserted[t] # << >> =>
      GetLawResponses(laws, t) = {HttpResponse(200, lastUpserted[t], "")}

\* T was upserted with one content and then, within the same second, with
\* another one, which is what a read now returns
C3_Witness ==
  /\ log.kind = "updated"
  /\ log.before # << >>
  /\ log.before # log.body
  /\ now = 0
  /\ GetLawResponses(laws, log.lawType) = {HttpResponse(200, log.body, "")}

\* C4: GET /laws/T answers 404 {"error": "Lei não encontrada"} for a type
\* that was never upserted, and 200 with the record's content, never the
\* not-found answer, for a type that has a record
C4_NotFoundContract ==
  \A t \in RequestTypes :
    /\ NeverUpserted(t) => GetLawResponses(laws, t) = {NotFound}
    /\ RowsOf(laws, t) # {} =>
         \A resp \in GetLawResponses(laws, t) :
           /\ resp.status = 200
           /\ resp.body = ContentOf(laws, t)
           /\ resp # NotFound

\* one catalog type has a record and another was never upserted
C4_Witness ==
  \E t1, t2 \in CatalogTypes :
    /\ lastUpserted[t1] # << >> /\ RowsOf(laws, t1) # {}
    /\ lastUpserted[t2] = << >> /\ RowsOf(laws, t2) = {}

\* C5: a fetch that fails for good leaves its run in progress, in the pause
\* of the same entry; after a pause the run fetches the next entry; a fetch
\* that succeeds is upserted; and a run returns only from the pause of the
\* last entry
C5_CycleResilience ==
  [][ /\ log'.kind = "failed" =>
           \E r \in RunningCycles : \E r2 \in RunningCycles' :
             /\ r.pc = "fetch" /\ TypeOf(r) = log'.lawType
             /\ r2.pc = "pause" /\ r2.idx = r.idx
             /\ cycles' = Replace(cycles, r, r2)
      /\ log'.kind = "updated" =>
           /\ RowsOf(laws', log'.lawType) # {}
           /\ ContentOf(laws', log'.lawType) = log'.body
           /\ \E r \in RunningCycles : \E r2 \in RunningCycles' :
                /\ r.pc = "fetch" /\ TypeOf(r) = log'.lawType
                /\ r2.pc = "pause" /\ r2.idx = r.idx
                /\ cycles' = Replace(cycles, r, r2)
      /\ \A r \in RunningCycles :
           (r.pc = "pause" /\ r.idx < Len(lawsToUpdate) /\ PauseElapses(r)) =>
             \E r2 \in RunningCycles' :
               /\ r2.pc = "fetch" /\ r2.idx = r.idx + 1
               /\ cycles' = Replace(cycles, r, r2)
      /\ CopiesIn(Done, cycles') > CopiesIn(Done, cycles) =>
           \E r \in RunningCycles :
             /\ r.pc = "pause" /\ r.idx = Len(lawsToUpdate)
             /\ cycles' = Replace(cycles, r, Done)
    ]_vars

\* the only run there is has just upserted the second entry although the
\* first entry has no record: its fetch had failed in this very run
C5_Witness ==
  /\ BagCardinality(cycles) = 1
  /\ log.kind = "updated"
  /\ log.lawType = lawsToUpdate[2].type
  /\ RowsOf(laws, lawsToUpdate[1].type) = {}

\* C6: a step in which a fetch ends without content leaves the table as it
\* was, rows, contents and timestamps, and so every read answers as before
C6_FailureLeavesStore ==
  [][ log'.kind = "failed" =>
        /\ laws' = laws
        /\ \A t \in RequestTypes :
             GetLawResponses(laws', t) = GetLawResponses(laws, t)
    ]_vars

\* the fetch of a type that has a record has just failed
C6_Witness ==
  /\ log.kind = "failed"
  /\ RowsOf(laws, log.lawType) # {}

\* the failures the claim calls network-class
NetworkClassErrors ==
  {"ECONNRESET", "ENOTFOUND", "ETIMEDOUT", "ECONNABORTED", "HTTP5xx"}

\* no fetch sends more than 1 + retries requests (holds)
C7_AtMostFourAttempts ==
  \A r \in BagToSet(cycles) : r.attempts <= retries + 1 /\ r.retryCount <= retries

\* C7: every network-class failure (connection reset, timeout, DNS failure,
\* 5xx) of an attempt made with fewer than 3 retries behind it is retried
C7_NetworkFailuresRetried ==
  [][ \A r \in RunningCycles : \A error \in NetworkClassErrors :
        (r.retryCount < retries /\ (RequestRetried(r, error) \/ RequestFails(r, error))) =>
          \E r2 \in RunningCycles' :
            /\ r2.pc = "backoff" /\ r2.idx = r.idx
            /\ cycles' = Replace(cycles, r, r2)
    ]_vars

\* C8: an attempt that is answered, after however many retried failures,
\* makes the fetcher return the decoded and cleaned payload, which updateLaw
\* upserts and a read then returns; a retried failure is not reported as a
\* failed fetch and writes nothing
C8_SuccessAfterRetries ==
  [][ /\ log'.kind # "none" =>
           \A r \in RunningCycles :
             (r.pc = "fetch" /\ log'.lawType = TypeOf(r)) =>
               \A data \in Payloads :
                 RequestSucceeds(r, data, now' - now) =>
                   /\ log' = Line("updated", TypeOf(r), Cleaned[data],
                                  ContentOf(laws, TypeOf(r)))
                   /\ GetLawResponses(laws', TypeOf(r)) =
                        {HttpResponse(200, Cleaned[data], "")}
      /\ (log'.kind = "none" /\ cycles' # cycles) =>
           \A r \in RunningCycles :
             (r.pc = "fetch" /\ cycles' = Replace(cycles, r, Backoff(r))) =>
               laws' = laws /\ r.retryCount < retries
    ]_vars

\* the fourth attempt of a fetch is in flight, its first three having failed
\* and been retried, and the step in which it is answered and its payload
\* upserted can be taken
C8_Witness ==
  \E r \in RunningCycles : \E data \in Payloads :
    /\ r.pc = "fetch"
    /\ r.retryCount = retries
    /\ r.attempts = retries + 1
    /\ ENABLED (/\ RequestSucceeds(r, data, 0)
                /\ ContentOf(laws', TypeOf(r)) = Cleaned[data])

\* C9: a type that has a record has one after every step, and no read of it
\* gets the not-found answer
C9_NeverDeleted ==
  [][ laws' # laws =>
        \A t \in RequestTypes :
          RowsOf(laws, t) # {} =>
            /\ RowsOf(laws', t) # {}
            /\ NotFound \notin GetLawResponses(laws', t)
    ]_vars

\* a type was upserted, its fetch has failed in a later step, and a read of
\* it still answers 200
C9_Witness ==
  /\ log.kind = "failed"
  /\ log.lawType \in CatalogTypes
  /\ lastUpserted[log.lawType] # << >>
  /\ \A resp \in GetLawResponses(laws, log.lawType) : resp.status = 200

\* C10: serving GET /laws/:lawType changes neither the table nor the clock
\* nor any run of the scheduler, whether the type is found or not
C10_PureRead ==
  [][ \A t \in RequestTypes :
        GetLaw(t) => UNCHANGED << laws, now, cycles, lastUpserted >>
    ]_vars

\* a state, with a run in progress, in which a request for one type is
\* answered 200 and a request for another type 404
C10_Witness ==
  /\ NumRunning > 0
  /\ \E t1, t2 \in RequestTypes :
       /\ NotFound \notin GetLawResponses(laws, t1)
       /\ GetLawResponses(laws, t2) = {NotFound}
       /\ ENABLED GetLaw(t1) /\ ENABLED GetLaw(t2)

\* C11: GET /laws/:lawType can be served in every state, whatever the runs
\* of the scheduler are suspended in (request, retry delay, pause, nothing),
\* and serving it starts no request
C11_ReadNeverBlocked ==
  \A t \in RequestTypes : ENABLED (GetLaw(t) /\ cycles' = cycles)

\* one run sleeps before a retry, another is in its pause, the table has a
\* record, and a read of that record can be served
C11_Witness ==
  /\ \E r1, r2 \in RunningCycles : r1.pc = "backoff" /\ r2.pc = "pause"
  /\ \E t \in CatalogTypes :
       /\ RowsOf(laws, t) # {}
       /\ ENABLED GetLaw(t)

\* C15: the sleep before retry number n is n x 2 seconds: 2 s, 4 s, 6 s
C15_LinearBackoff ==
  \A r \in BagToSet(cycles) :
    r.pc = "backoff" =>
      /\ r.retryCount \in 1..3
      /\ r.timer = 2000 * r.retryCount
      /\ r.timer \in {2000, 4000, 6000}
      /\ r.retryCount > 1 => r.timer >= 2000 * (r.retryCount - 1)

\* a run sleeps 6 seconds before its third retry
C15_Witness ==
  \E r \in RunningCycles :
    r.pc = "backoff" /\ r.retryCount = 3 /\ r.attempts = 3 /\ r.timer = 6000

\* every return of updateLaw, with or without content, is followed by the
\* 2 second pause of the same run (holds)
C17_PauseAfterEveryEntry ==
  [][ log'.kind # "none" =>
        \E r \in RunningCycles :
          /\ r.pc = "fetch" /\ TypeOf(r) = log'.lawType
          /\ cycles' = Replace(cycles, r, Run("pause", r.idx, 0, 0, 2000))
    ]_vars

\* C17: the first request of a catalog entry is issued only at the end of
\* the pause that follows the entry before it, and with no request or retry
\* of a different entry outstanding, so that a pause lies between the
\* requests of two different entries
C17_PauseBetweenEntries ==
  [][ \A r2 \in RunningCycles' :
        (r2.pc = "fetch" /\ r2.attempts = 1
           /\ CopiesIn(r2, cycles') > CopiesIn(r2, cycles)) =>
          /\ r2.idx > 1 =>
               \E r \in RunningCycles :
                 /\ r.pc = "pause" /\ r.idx = r2.idx - 1 /\ r.timer = 2000
                 /\ cycles' = Replace(cycles, r, r2)
          /\ \A other \in RunningCycles :
               other.pc \in {"fetch", "backoff"} => other.idx = r2.idx
    ]_vars

\* C18: whatever a read returns for T is, whole, the cleaned text of one
\* answer to a request for T's entry: the one T's latest upsert wrote
C18_AtomicRecord ==
  \A t \in RequestTypes : \A resp \in GetLawResponses(laws, t) :
    resp.status = 200 =>
      /\ t \in CatalogTypes
      /\ resp.body = lastUpserted[t]
      /\ \E data \in Payloads : resp.body = Cleaned[data]

\* with two runs in progress, two types hold different contents and one of
\* them has just been overwritten with a content it did not hold
C18_Witness ==
  /\ NumRunning = 2
  /\ log.kind = "updated" /\ log.before # << >> /\ log.before # log.body
  /\ \E t \in CatalogTypes :
       /\ t # log.lawType
       /\ RowsOf(laws, t) # {}
       /\ ContentOf(laws, t) # log.body
       /\ GetLawResponses(laws, t) = {HttpResponse(200, ContentOf(laws, t), "")}

\* the rows of type t, as a set
RecordsOf(table, t) == {table[i] : i \in RowsOf(table, t)}

\* C20: a step changes the table only when updateLaw upserts, and then the
\* rows of every type other than the upserted one are as they were
C20_OtherTypesUntouched ==
  [][ laws' # laws =>
        /\ log'.kind = "updated"
        /\ \A t \in RequestTypes \ {log'.lawType} :
             RecordsOf(laws', t) = RecordsOf(laws, t)
    ]_vars

\* T's record has just been overwritten while another type holds a record
\* with a different content and an older timestamp
C20_Witness ==
  /\ log.kind = "updated" /\ log.before # << >>
  /\ \E i \in DOMAIN laws :
       /\ laws[i].law_type # log.lawType
       /\ laws[i].content # log.body
       /\ laws[i].last_updated < now


\* the pieces of a sequence that are in a set
Count(doc, pieces) == Cardinality({i \in DOMAIN doc : doc[i] \in pieces})

\* markup in which no text spells an element as entities
NoEscapedMarkup(html) == \A i \in DOMAIN html : html[i] # "&lt;script&gt;"

\* for markup whose text spells no element as entities, what parseHTML
\* returns has no image and no script element and every hyperlink is kept,
\* without its target (holds)
C12_ElementsRemoved ==
  \A c \in BagToSet(cycles) :
    (c.pc = "returned" /\ NoEscapedMarkup(c.html)) =>
      /\ Count(c.result.text, {"<img>", "<script>", "<a href>"}) = 0
      /\ Count(c.result.text, {"<a>"}) = Count(c.html, {"<a href>"})

\* C12: what parseHTML returns has no image element and no script element,
\* and every hyperlink of the input is in it, without its target
C12_Sanitized ==
  \A c \in BagToSet(cycles) :
    c.pc = "returned" =>
      /\ Count(c.result.text, {"<img>", "<script>", "<a href>"}) = 0
      /\ Count(c.result.text, {"<a>"}) = Count(c.html, {"<a href>"})

\* C13: when the upsert of an entry throws, the process lives on, the run
\* is in the pause of that entry, from where it takes the next one, and
\* no run is ever abandoned
C13_StoreErrorContained ==
  /\ ProcessAlive
  /\ \A r \in BagToSet(cycles) : r.pc # "aborted"
  /\ log.kind = "threw" =>
       \E r \in RunningCycles : r.pc = "pause" /\ TypeOf(r) = log.lawType

\* the calls of updateLaw whose request is outstanding
Outstanding == {k \in BagToSet(cycles) : k.pc \in {"fetch", "hung"}}

\* C14: one call of scheduleLawUpdates never has the requests of two
\* entries outstanding
C14_Sequential ==
  \A k1, k2 \in Outstanding : k1.cycle = k2.cycle => k1.idx = k2.idx

\* in the current server a run takes the entries one at a time and in
\* catalog order: it moves to entry i + 1 only from the pause of entry i
\* (holds)
C14_CurrentInOrder ==
  [][ \A r2 \in RunningCycles' :
        (r2.idx > 1 /\ CopiesIn(r2, cycles') > CopiesIn(r2, cycles)) =>
          \E r \in RunningCycles :
            /\ cycles' = Replace(cycles, r, r2)
            /\ \/ r.idx = r2.idx
               \/ r.idx = r2.idx - 1 /\ r.pc = "pause" /\ r2 = StartFetch(r2.idx)
    ]_vars

\* in the current server every started run returns (holds under FairSpec)
C16_CurrentRunsReturn ==
  <>[](\A r \in BagToSet(cycles) : r.pc = "done")

\* call c of scheduleLawUpdates has been made
CycleStarted(c) == \E k \in BagToSet(cycles) : k.cycle = c

\* every updateLaw of call c has returned
CycleCompleted(c) ==
  /\ CycleStarted(c)
  /\ \A k \in BagToSet(cycles) : k.cycle = c => k.pc = "returned"

\* C16: every started refresh cycle eventually completes
C16_EveryCycleCompletes ==
  \A c \in 1..MaxCycles : CycleStarted(c) ~> CycleCompleted(c)

\* the row of type t written last: the one with the greatest rowid
LastWritten(table, t) ==
  CHOOSE i \in RowsOf(table, t) : \A j \in RowsOf(table, t) : table[j].id <= table[i].id

\* a read answers not-found exactly when the type has no row (holds)
C19_NotFoundOnlyWithoutRow ==
  \A t \in RequestTypes :
    (NotFound \in legacyGetLawResponses(laws, t)) <=> (RowsOf(laws, t) = {})

\* C19: with several rows for T, GET /laws/T returns the content (entities
\* decoded) of the row of T written last, and not-found only without a row
C19_LatestOfDuplicates ==
  \A t \in RequestTypes :
    legacyGetLawResponses(laws, t) =
      IF RowsOf(laws, t) = {} THEN {NotFound}
      ELSE {HttpResponse(200, heDecode(laws[LastWritten(laws, t)].content), "")}


====
